---- MODULE Spec2Model ----
(***************************************************************************)
(* Model of the Daridorexant / Quviviq dashboard script                    *)
(* (src/App/streamlit_app.py).  One behaviour is a sequence of script runs *)
(* (Streamlit re-runs the script top to bottom on every interaction); one  *)
(* action is one section of the script.                                    *)
(*                                                                         *)
(* Encodings.  A CSV Month cell is the number YYYYMM of its text (202401   *)
(* for "2024-01-01"); a cell that is no date has a month part outside      *)
(* 1..12.  A Timestamp is year*12+month, NaT is 0.  A missing categorical  *)
(* cell is NULL.  A frame is [present, cols, rows]; None is NoFrame.       *)
(***************************************************************************)
EXTENDS Integers, Sequences, FiniteSets, TLC

VARIABLES fs, cache, pc, halt, page, long_path, data, df,
          date_range, selected, fdf, kpi, map_type,
          monthly, setting_trends, dose_trends, brand_trends,
          regional_latest, fig5, hist_totals, csv_bytes, csv_monthly

vars == <<fs, cache, pc, halt, page, long_path, data, df,
          date_range, selected, fdf, kpi, map_type,
          monthly, setting_trends, dose_trends, brand_trends,
          regional_latest, fig5, hist_totals, csv_bytes, csv_monthly>>

-----------------------------------------------------------------------------
(* Bounds and program constants *)

\* Largest number of rows of a primary dataset file.
MaxRows == 2

\* regional_latest.head(15)
TopN == 15

\* pd.NaT, what errors="coerce" makes of a cell that is no date.
NaT == 0

\* NaN in a categorical column.
NULL == "<NA>"

\* None: what load_csv returns for a missing file.  mtype is the dtype of the
\* Month column: "text" (object), "datetime", or "none" (no such column).
NoFrame == [present |-> FALSE, cols |-> {}, rows |-> <<>>, mtype |-> "none"]

Frame(cols, rows, mtype) ==
    [present |-> TRUE, cols |-> cols, rows |-> rows, mtype |-> mtype]

candidates == <<"Input_File_Long_Format_Data_With_Postcode.csv",
                "Input_File_Long_Format_Data.csv",
                "Input_File_Cleaned.csv">>

Measures == <<"QTY", "NIC", "ITEMS">>

-----------------------------------------------------------------------------
(* Generic helpers on sequences *)

Range(s) == {s[i] : i \in DOMAIN s}

RECURSIVE SumSeq(_)
SumSeq(s) == IF s = <<>> THEN 0 ELSE Head(s) + SumSeq(Tail(s))

\* All orderings of the elements of the finite set S.
Perms(S) ==
    {p \in [1..Cardinality(S) -> S] : \A x \in S : \E i \in DOMAIN p : p[i] = x}

SetMin(S) == CHOOSE x \in S : \A y \in S : x <= y

SetMax(S) == CHOOSE x \in S : \A y \in S : x >= y

\* The strings of S in ascending order, S a subset of the ordered list `order`.
RECURSIVE SortedBy(_, _)
SortedBy(S, order) ==
    IF order = <<>> THEN <<>>
    ELSE IF Head(order) \in S THEN <<Head(order)>> \o SortedBy(S, Tail(order))
    ELSE SortedBy(S, Tail(order))

\* Code-point order of the category strings of the model (Python's sorted()).
StrOrder == <<"25mg", "50mg", "BNF_Name", "Brand", "Generic", "Hospital",
              "ICB_A", "ICB_B", "Primary">>

StrRank(s) == CHOOSE i \in DOMAIN StrOrder : StrOrder[i] = s

-----------------------------------------------------------------------------
(* The data directory: the files the script may find *)

PrimaryCols == {"Month", "ICB_Name", "Quviviq_Type", "Product_Group",
                "BNF_Name", "QTY", "NIC", "ITEMS"}

Row(m, icb, typ, grp, bnf, q, n, i) ==
    [Month |-> m, ICB_Name |-> icb, Quviviq_Type |-> typ, Product_Group |-> grp,
     BNF_Name |-> bnf, QTY |-> q, NIC |-> n, ITEMS |-> i]

\* The rows a primary file is made of, in file order (not Month order).
RowPool ==
    << Row(202402, "ICB_A", "Primary",  "25mg", "Generic", 20, 840, 2),
       Row(202401, "ICB_A", "Primary",  "25mg", "Generic", 10, 420, 1),
       Row(202401, "ICB_B", "Hospital", "25mg", "Generic",  5, 210, 1),
       Row(202402, "ICB_B", "Primary",  "25mg", "Generic", 20, 840, 2),
       Row(202413, "ICB_A", "Primary",  "25mg", "Generic",  7, 294, 1),
       Row(202401, "ICB_A", "Primary",  "50mg", "Brand",    4, 168, 1),
       Row(202401, NULL,    "Primary",  "25mg", "Generic",  3, 126, 1),
       Row(202402, "ICB_A", NULL,       "25mg", "Generic",  6, 252, 1),
       Row(202401, "ICB_A", "Primary",  NULL,   "Generic",  8, 336, 1),
       Row(202402, "ICB_A", "Primary",  "25mg", NULL,       9, 378, 1) >>

\* The rows of RowPool at the positions S, in pool order.
RECURSIVE PickRows(_, _)
PickRows(S, i) ==
    IF i > Len(RowPool) THEN <<>>
    ELSE IF i \in S THEN <<RowPool[i]>> \o PickRows(S, i + 1)
    ELSE PickRows(S, i + 1)

PrimaryRowSeqs ==
    {PickRows(S, 1) : S \in {T \in SUBSET DOMAIN RowPool : Cardinality(T) <= MaxRows}}

MissingFile == [status |-> "missing", cols |-> {}, rows |-> <<>>]

CorruptFile == [status |-> "corrupt", cols |-> {}, rows |-> <<>>]

OkFile(cols, rows) == [status |-> "ok", cols |-> cols, rows |-> rows]

\* A primary file without the BNF_Name column: the cell is not in the file.
DropBNF(rows) == [k \in DOMAIN rows |-> [rows[k] EXCEPT !.BNF_Name = NULL]]

PrimaryFiles ==
    {OkFile(PrimaryCols, r) : r \in PrimaryRowSeqs}
    \cup {OkFile(PrimaryCols \ {"BNF_Name"}, DropBNF(r)) :
             r \in {q \in PrimaryRowSeqs : Len(q) >= 1}}

\* What each candidate holds when the precedence of the candidates is at stake:
\* three different one-row files.
SamplePrimary(i) == OkFile(PrimaryCols, <<RowPool[i]>>)

MonthlyFile ==
    OkFile({"Month", "QTY", "NIC", "ITEMS"},
           <<[Month |-> 202401, QTY |-> 15, NIC |-> 630, ITEMS |-> 2]>>)

ForecastCols == {"Month", "Forecast_QTY", "Forecast_NIC", "Forecast_ITEMS"}

ForecastFile ==
    OkFile(ForecastCols,
           <<[Month |-> 202403, Forecast_QTY |-> 25, Forecast_NIC |-> 1050,
              Forecast_ITEMS |-> 3]>>)

\* A forecast file with a Month cell that is no date.
ForecastBadMonth ==
    OkFile(ForecastCols,
           <<[Month |-> 202400, Forecast_QTY |-> 25, Forecast_NIC |-> 1050,
              Forecast_ITEMS |-> 3]>>)

GeoCols == {"Month", "ICB_Name", "Quviviq_Type", "Product_Group", "Post_Code",
            "Latitude", "Longitude", "QTY", "NIC", "ITEMS"}

\* Post_Code, Latitude and Longitude are columns only: the script never
\* computes with their cells.
GeoRow(m, icb, typ, grp, q, n, i) ==
    [Month |-> m, ICB_Name |-> icb, Quviviq_Type |-> typ, Product_Group |-> grp,
     QTY |-> q, NIC |-> n, ITEMS |-> i]

GeoFile ==
    OkFile(GeoCols,
           << GeoRow(202401, "ICB_A", " Primary", "25mg ", 10, 420, 1),
              GeoRow(202413, "ICB_B", NULL,       "50mg",   0,   0, 0) >>)

GeoEmptyFile == OkFile(GeoCols, <<>>)

\* The optional files met together: <<monthly, forecast_summary, geo>>.
OptionalQuery ==
    { <<MissingFile, MissingFile, MissingFile>>,
      <<MissingFile, MissingFile, GeoFile>>,
      <<MonthlyFile, ForecastFile, MissingFile>> }

OptionalLoad ==
    { <<MissingFile, MissingFile, MissingFile>>,
      <<MonthlyFile, ForecastFile, GeoFile>>,
      <<MonthlyFile, CorruptFile, GeoFile>>,
      <<CorruptFile, ForecastFile, MissingFile>>,
      <<MonthlyFile, ForecastBadMonth, GeoEmptyFile>>,
      <<MissingFile, ForecastFile, CorruptFile>> }

MakeFs(c, opt) ==
    [long |-> c, monthly |-> opt[1], forecast_summary |-> opt[2], geo |-> opt[3]]

\* Every state of the three candidates over three distinct files.
FsLoad ==
    {MakeFs([i \in 1..3 |-> IF st[i] = "ok" THEN SamplePrimary(i)
                            ELSE IF st[i] = "corrupt" THEN CorruptFile
                            ELSE MissingFile], opt) :
        st \in [1..3 -> {"missing", "corrupt", "ok"}], opt \in OptionalLoad}

\* Every primary dataset, as the second candidate.
FsQuery ==
    {MakeFs(<<MissingFile, f, SamplePrimary(3)>>, opt) :
        f \in PrimaryFiles, opt \in OptionalQuery}

-----------------------------------------------------------------------------
(* Helpers & Data Loading *)

\* pd.to_datetime of one cell: the Timestamp of a date, NaT of anything else.
ParseMonth(raw) ==
    IF raw % 100 \in 1..12 THEN ((raw \div 100) * 12) + (raw % 100) ELSE NaT

IsDate(raw) == ParseMonth(raw) # NaT

\* pd.read_csv(path, parse_dates=...): the rows get the index 1..n; a Month
\* column is converted only if every cell of it is a date, and is left as
\* text otherwise.  Raises on a corrupt file and on a parse_dates column the
\* file does not have.
read_csv(file, parse_dates) ==
    LET indexed == [k \in DOMAIN file.rows |->
                      [idx |-> k] @@ file.rows[k]]
        convert == parse_dates /\ \A k \in DOMAIN indexed : IsDate(indexed[k].Month)
        rows    == IF convert
                   THEN [k \in DOMAIN indexed |->
                           [indexed[k] EXCEPT !.Month = ParseMonth(@)]]
                   ELSE indexed
        mtype   == IF "Month" \notin file.cols THEN "none"
                   ELSE IF convert THEN "datetime" ELSE "text"
    IN  IF file.status = "corrupt" \/ (parse_dates /\ "Month" \notin file.cols)
        THEN [raised |-> TRUE, frame |-> NoFrame]
        ELSE [raised |-> FALSE, frame |-> Frame(file.cols, rows, mtype)]

load_csv(file, parse_dates) ==
    IF file.status = "missing"
    THEN [raised |-> FALSE, frame |-> NoFrame]
    ELSE read_csv(file, parse_dates)

\* The candidate loop without its break: the last candidate that exists wins.
FirstExisting_nobreak(c) ==
    IF \E i \in DOMAIN c : c[i].status # "missing"
    THEN SetMax({i \in DOMAIN c : c[i].status # "missing"})
    ELSE 0

\* The candidate loop of load_data: the position of the first candidate that
\* exists, 0 (None) if none does.
FirstExisting(c) ==
    IF \E i \in DOMAIN c : c[i].status # "missing"
    THEN SetMin({i \in DOMAIN c : c[i].status # "missing"})
    ELSE 0

NoData == [long |-> NoFrame, monthly |-> NoFrame,
           forecast_summary |-> NoFrame, geo |-> NoFrame]

\* load_data(): [halt, long_path, data].  halt is "NoDatasetFound" (st.error and
\* st.stop), "LoadError" (read_csv raised) or "" (the dict is returned).
load_data(files) ==
    LET lp == FirstExisting(files.long)
        l  == load_csv(files.long[lp], TRUE)
        m  == load_csv(files.monthly, TRUE)
        f  == load_csv(files.forecast_summary, TRUE)
        g  == load_csv(files.geo, FALSE)
    IN  IF lp = 0
        THEN [halt |-> "NoDatasetFound", long_path |-> 0, data |-> NoData]
        ELSE IF l.raised \/ m.raised \/ f.raised \/ g.raised
        THEN [halt |-> "LoadError", long_path |-> lp, data |-> NoData]
        ELSE [halt |-> "", long_path |-> lp,
              data |-> [long |-> l.frame, monthly |-> m.frame,
                        forecast_summary |-> f.frame, geo |-> g.frame]]

-----------------------------------------------------------------------------
(* df: the working copy of the long dataset *)

\* pd.to_datetime(column, errors="coerce"): a column already converted is kept
\* and a text column is parsed cell by cell.
to_datetime_coerce(frame) ==
    [frame EXCEPT
        !.rows  = [k \in DOMAIN frame.rows |->
                     IF frame.mtype = "text"
                     THEN [frame.rows[k] EXCEPT !.Month = ParseMonth(@)]
                     ELSE frame.rows[k]],
        !.mtype = "datetime"]

\* Ascending Month order with NaT last (na_position="last").
MonthLE(a, b) == b = NaT \/ (a # NaT /\ a <= b)

\* sort_values("Month"): the default sort is not stable, so rows of one Month
\* come out in an order the code does not determine.  The set of results.
sort_values_Month(rows) ==
    {[k \in DOMAIN rows |-> rows[p[k]]] :
        p \in {q \in Perms(DOMAIN rows) :
                 \A i, j \in DOMAIN rows :
                     i < j => MonthLE(rows[q[i]].Month, rows[q[j]].Month)}}

-----------------------------------------------------------------------------
(* Sidebar Controls *)

ValidMonths(rows) == {rows[k].Month : k \in DOMAIN rows} \ {NaT}

\* Series.min() / .max(): NaT when no cell is a date.
min_month(rows) == IF ValidMonths(rows) = {} THEN NaT ELSE SetMin(ValidMonths(rows))

max_month(rows) == IF ValidMonths(rows) = {} THEN NaT ELSE SetMax(ValidMonths(rows))

\* df[col].dropna().unique()
Uniques(rows, col) == {rows[k][col] : k \in DOMAIN rows} \ {NULL}

\* df.get("BNF_Name", pd.Series(["BNF_Name", "Generic"])).dropna().unique()
BrandUniques(frame) ==
    IF "BNF_Name" \in frame.cols THEN Uniques(frame.rows, "BNF_Name")
    ELSE {"BNF_Name", "Generic"}

\* The option lists of the four multiselects, each sorted().
Options(frame) ==
    [settings |-> SortedBy(Uniques(frame.rows, "Quviviq_Type"), StrOrder),
     doses    |-> SortedBy(Uniques(frame.rows, "Product_Group"), StrOrder),
     brands   |-> SortedBy(BrandUniques(frame), StrOrder),
     regions  |-> SortedBy(Uniques(frame.rows, "ICB_Name"), StrOrder)]

NoSelection == [settings |-> {}, doses |-> {}, brands |-> {}, regions |-> {}]

\* What the user may have selected: any sub-list of each option list.
Selections(frame) ==
    [settings : SUBSET Range(Options(frame).settings),
     doses    : SUBSET Range(Options(frame).doses),
     brands   : SUBSET Range(Options(frame).brands),
     regions  : SUBSET Range(Options(frame).regions)]

DefaultSelection(frame) ==
    [settings |-> Range(Options(frame).settings),
     doses    |-> Range(Options(frame).doses),
     brands   |-> Range(Options(frame).brands),
     regions  |-> Range(Options(frame).regions)]

\* What the range slider may return: lo <= hi within [min_month, max_month].
DateRanges(rows) ==
    {<<lo, hi>> \in (min_month(rows)..max_month(rows))
                    \X (min_month(rows)..max_month(rows)) : lo <= hi}

-----------------------------------------------------------------------------
(* Filtered Data *)

\* Series.isin(values)
isin(v, values) == v \in values

\* The lower bound of the range taken as exclusive.
MonthGE_exclusive(m, d) == m # NaT /\ m > d

\* Comparisons with NaT are False.
MonthGE(m, d) == m # NaT /\ m >= d

\* The upper bound of the range taken as exclusive.
MonthLEq_exclusive(m, d) == m # NaT /\ m < d

MonthLEq(m, d) == m # NaT /\ m <= d

\* One row of the mask.
mask(r, range, sel) ==
    /\ MonthGE(r.Month, range[1])
    /\ MonthLEq(r.Month, range[2])
    /\ isin(r.ICB_Name, sel.regions)
    /\ isin(r.Quviviq_Type, sel.settings)
    /\ isin(r.Product_Group, sel.doses)
    /\ isin(r.BNF_Name, sel.brands)

\* df.loc[mask].copy()
loc_mask(frame, range, sel) ==
    LET keep(r) == mask(r, range, sel)
    IN  [frame EXCEPT !.rows = SelectSeq(frame.rows, keep)]

-----------------------------------------------------------------------------
(* Aggregates *)

SumCol(rows, col) == SumSeq([k \in DOMAIN rows |-> rows[k][col]])

\* The ascending sequence of the numbers of S.
RECURSIVE Ascending(_)
Ascending(S) ==
    IF S = {} THEN <<>> ELSE <<SetMin(S)>> \o Ascending(S \ {SetMin(S)})

\* groupby("Month")[["QTY", "NIC", "ITEMS"]].sum().reset_index(): one row per
\* Month, ascending; rows whose Month is NaT are in no group (dropna=True).
groupby_Month(rows) ==
    LET months == Ascending(ValidMonths(rows))
        of(m)  == LET in(r) == r.Month = m IN SelectSeq(rows, in)
    IN  [k \in DOMAIN months |->
            [Month |-> months[k],
             QTY   |-> SumCol(of(months[k]), "QTY"),
             NIC   |-> SumCol(of(months[k]), "NIC"),
             ITEMS |-> SumCol(of(months[k]), "ITEMS")]]

\* The KPI metrics: kpi[c].sum()
Total(groups, col) == SumCol(groups, col)

\* The cross-tabulation keeping one row per Month: only the first value of the
\* dimension met in a month gets a row.
groupby_Month_dim_first(rows, dim) ==
    LET months  == Ascending(ValidMonths(rows))
        of(m)   == LET in(r) == r.Month = m IN SelectSeq(rows, in)
        vals(m) == SortedBy(Uniques(of(m), dim), StrOrder)
        cell(m, v) == LET in(r) == r.Month = m /\ r[dim] = v
                      IN  [Month |-> m, key |-> v,
                           QTY |-> SumCol(SelectSeq(rows, in), "QTY")]
    IN  [k \in DOMAIN months |-> cell(months[k], vals(months[k])[1])]

\* groupby(["Month", dim])[["QTY"]].sum().reset_index(): one row per (Month,
\* value) met, in (Month, value) order; a row with a NaT Month or a missing
\* value is in no group.
groupby_Month_dim(rows, dim) ==
    LET months  == Ascending(ValidMonths(rows))
        of(m)   == LET in(r) == r.Month = m IN SelectSeq(rows, in)
        vals(m) == SortedBy(Uniques(of(m), dim), StrOrder)
        cell(m, v) == LET in(r) == r.Month = m /\ r[dim] = v
                      IN  [Month |-> m, key |-> v,
                           QTY |-> SumCol(SelectSeq(rows, in), "QTY")]
        block(m) == [j \in DOMAIN vals(m) |-> cell(m, vals(m)[j])]
        RECURSIVE cat(_)
        cat(k) == IF k > Len(months) THEN <<>> ELSE block(months[k]) \o cat(k + 1)
    IN  cat(1)

\* The set of results of trend.sort_values("Month").
trend_by(rows, dim) == sort_values_Month(groupby_Month_dim(rows, dim))

\* fdf[fdf["Month"] == latest_month].groupby("ICB_Name")[[...]].sum():
\* one row per ICB of the latest month, in ascending ICB_Name order.
groupby_ICB_latest(rows) ==
    LET latest_month == max_month(rows)
        at   == LET in(r) == r.Month = latest_month IN SelectSeq(rows, in)
        icbs == SortedBy(Uniques(at, "ICB_Name"), StrOrder)
        of(i) == LET in(r) == r.ICB_Name = i IN SelectSeq(at, in)
    IN  [k \in DOMAIN icbs |->
            [ICB_Name |-> icbs[k],
             QTY   |-> SumCol(of(icbs[k]), "QTY"),
             NIC   |-> SumCol(of(icbs[k]), "NIC"),
             ITEMS |-> SumCol(of(icbs[k]), "ITEMS")]]

\* sort_values("QTY", ascending=False): descending QTY; the default sort is not
\* stable, so groups of equal QTY come out in an order the code does not
\* determine.  The set of results.
sort_values_QTY_desc(groups) ==
    {[k \in DOMAIN groups |-> groups[p[k]]] :
        p \in {q \in Perms(DOMAIN groups) :
                 \A i, j \in DOMAIN groups :
                     i < j => groups[q[i]].QTY >= groups[q[j]].QTY}}

\* DataFrame.head(n)
head(rows, n) == SubSeq(rows, 1, IF Len(rows) < n THEN Len(rows) ELSE n)

-----------------------------------------------------------------------------
(* Geographic maps: the columns the section writes *)

\* np.where(QTY > 0, QTY, 0.1), in tenths.
QtyFloor(q) == IF q > 0 THEN q * 10 ELSE 1

\* (QTY_display / QTY_display.max()) * 40, in hundredths.
QtyDisplay(rows) ==
    LET top == SetMax({QtyFloor(rows[k].QTY) : k \in DOMAIN rows})
    IN  [k \in DOMAIN rows |-> (QtyFloor(rows[k].QTY) * 4000) \div top]

\* Timestamp.strftime("%b-%Y"), as YYYYMM; NaN of NaT.
strftime(m) == IF m = NaT THEN 0 ELSE (((m - 1) \div 12) * 100) + ((m - 1) % 12) + 1

\* astype(str).str.strip(): NaN becomes the text "nan", blanks at the ends go.
str_strip(v) ==
    CASE v = NULL       -> "nan"
      [] v = " Primary" -> "Primary"
      [] v = "25mg "    -> "25mg"
      [] OTHER          -> v

\* Lines 148-150, run on the frame data["geo"] itself.
geo_sizes(geo) ==
    LET g == to_datetime_coerce(geo)
    IN  [g EXCEPT !.cols = @ \cup {"QTY_display"},
                  !.rows = [k \in DOMAIN g.rows |->
                              [QTY_display |-> QtyDisplay(g.rows)[k]] @@ g.rows[k]]]

\* What the chosen branch writes on top of that.
geo_branch(g, choice) ==
    CASE choice = "Animated Adoption Map (by Setting)" ->
            [g EXCEPT !.cols = @ \cup {"Month_str"},
                      !.rows = [k \in DOMAIN g.rows |->
                                  [Month_str |-> strftime(g.rows[k].Month)]
                                  @@ g.rows[k]]]
      [] choice = "Setting & Dose Scattermap" ->
            [g EXCEPT !.rows = [k \in DOMAIN g.rows |->
                                  [g.rows[k] EXCEPT
                                     !.Product_Group = str_strip(@),
                                     !.Quviviq_Type = str_strip(@)]]]
      [] OTHER -> g

MapTypes == {"Animated Adoption Map (by Setting)", "Setting & Dose Scattermap",
             "NIC Heat Map (static)"}

-----------------------------------------------------------------------------
(* Data Explorer: CSV export *)

\* The Month cell of to_csv: the date text, as YYYYMM.
FormatMonth(m) == strftime(m)

\* fdf.to_csv(index=False): the header, then one line per row, the cells in
\* column order and the index left out.
to_csv(header, rows) ==
    <<header>> \o
    [k \in DOMAIN rows |->
        [c \in DOMAIN header |->
            IF header[c] = "Month" THEN FormatMonth(rows[k].Month)
            ELSE rows[k][header[c]]]]

PrimaryHeader == <<"Month", "ICB_Name", "Quviviq_Type", "Product_Group",
                   "BNF_Name", "QTY", "NIC", "ITEMS">>

MonthlyHeader == <<"Month", "QTY", "NIC", "ITEMS">>

-----------------------------------------------------------------------------
(* The script, section by section *)

NoCache == [filled |-> FALSE, long_path |-> 0, data |-> NoData]

EmptyRange == <<NaT, NaT>>

\* A script run starts with nothing computed and an empty page.
Fresh ==
    /\ pc = "start" /\ halt = "" /\ page = <<>> /\ long_path = 0
    /\ data = NoData /\ df = NoFrame
    /\ date_range = EmptyRange /\ selected = NoSelection
    /\ fdf = NoFrame /\ kpi = <<>> /\ map_type = ""
    /\ monthly = <<>> /\ setting_trends = <<>> /\ dose_trends = <<>>
    /\ brand_trends = <<>> /\ regional_latest = <<>> /\ fig5 = <<>>
    /\ hist_totals = <<>> /\ csv_bytes = <<>> /\ csv_monthly = <<>>

Init ==
    /\ fs \in FsLoad \cup FsQuery
    /\ cache = NoCache
    /\ Fresh

\* The st.warning of load_csv for each optional file that is missing.
Warnings(files) ==
    SelectSeq(<<"monthly", "forecast_summary", "geo">>,
              LAMBDA n : files[n].status = "missing")

\* load_data() without its st.stop(): the script goes on whatever happened.
after_load_nostop(h) == "loaded"

\* Where the script goes after load_data(): st.stop() and an exception of
\* read_csv both end the run.
after_load(h) == IF h = "" THEN "loaded" ELSE "halted"

\* Line 65, data = load_data(), under st.cache_data: the function runs when
\* nothing is cached; a returned dict is cached and every later run gets a
\* fresh copy of it.
LoadData ==
    /\ pc = "start"
    /\ LET res == IF cache.filled
                  THEN [halt |-> "", long_path |-> cache.long_path, data |-> cache.data]
                  ELSE load_data(fs)
       IN  /\ halt' = res.halt
           /\ long_path' = res.long_path
           /\ data' = res.data
           /\ pc' = after_load(res.halt)
           /\ cache' = IF res.halt = ""
                       THEN [filled |-> TRUE, long_path |-> res.long_path,
                             data |-> res.data]
                       ELSE cache
           /\ page' = CASE res.halt = "NoDatasetFound" -> <<"error_no_data_file">>
                         [] res.halt = "LoadError" -> <<"exception">>
                         [] OTHER -> Warnings(fs)
    /\ UNCHANGED <<fs, df, date_range, selected, fdf, kpi, map_type, monthly,
                   setting_trends, dose_trends, brand_trends, regional_latest,
                   fig5, hist_totals, csv_bytes, csv_monthly>>

\* Lines 66-68: the copy, the coerced Month, the sort.
Prepare ==
    /\ pc = "loaded"
    /\ \E sorted \in sort_values_Month(to_datetime_coerce(data.long).rows) :
          df' = [to_datetime_coerce(data.long) EXCEPT !.rows = sorted]
    /\ pc' = "prepared"
    /\ UNCHANGED <<fs, cache, halt, page, long_path, data, date_range, selected,
                   fdf, kpi, map_type, monthly, setting_trends, dose_trends,
                   brand_trends, regional_latest, fig5, hist_totals, csv_bytes,
                   csv_monthly>>

\* Lines 73-96.  With no valid Month the slider gets NaT bounds and raises.
\* Months are the granularity of the model: a bound inside a month keeps and
\* drops the same first-of-month records as the next (lower bound) or the same
\* (upper bound) month.
Sidebar ==
    /\ pc = "prepared"
    /\ IF min_month(df.rows) = NaT
       THEN /\ pc' = "halted" /\ halt' = "SliderError"
            /\ page' = page \o <<"exception">>
            /\ UNCHANGED <<date_range, selected>>
       ELSE /\ date_range' \in DateRanges(df.rows)
            /\ selected' \in Selections(df)
            /\ pc' = "sidebar"
            /\ page' = page \o <<"sidebar">>
            /\ UNCHANGED halt
    /\ UNCHANGED <<fs, cache, long_path, data, df, fdf, kpi, map_type, monthly,
                   setting_trends, dose_trends, brand_trends, regional_latest,
                   fig5, hist_totals, csv_bytes, csv_monthly>>

\* Lines 101-109.  df["BNF_Name"] raises KeyError when the column is not there.
FilterData ==
    /\ pc = "sidebar"
    /\ IF "BNF_Name" \in df.cols
       THEN /\ fdf' = loc_mask(df, date_range, selected)
            /\ pc' = "filtered"
            /\ UNCHANGED <<halt, page>>
       ELSE /\ pc' = "halted" /\ halt' = "KeyError"
            /\ page' = page \o <<"exception">>
            /\ UNCHANGED fdf
    /\ UNCHANGED <<fs, cache, long_path, data, df, date_range, selected, kpi,
                   map_type, monthly, setting_trends, dose_trends, brand_trends,
                   regional_latest, fig5, hist_totals, csv_bytes, csv_monthly>>

\* Lines 125-130.
Kpi ==
    /\ pc = "filtered"
    /\ kpi' = groupby_Month(fdf.rows)
    /\ page' = page \o <<"metrics">>
    /\ pc' = "kpi"
    /\ UNCHANGED <<fs, cache, halt, long_path, data, df, date_range, selected,
                   fdf, map_type, monthly, setting_trends, dose_trends,
                   brand_trends, regional_latest, fig5, hist_totals, csv_bytes,
                   csv_monthly>>

\* Lines 137-286: geo is data["geo"] itself, and the section assigns to it.
GeoMap ==
    /\ pc = "kpi"
    /\ IF data.geo.present /\ data.geo.rows # <<>>
       THEN \E choice \in MapTypes :
              /\ map_type' = choice
              /\ data' = [data EXCEPT !.geo = geo_branch(geo_sizes(@), choice)]
              /\ page' = page \o <<"fig_map">>
       ELSE /\ page' = page \o <<"info_geo">>
            /\ UNCHANGED <<map_type, data>>
    /\ pc' = "geo"
    /\ UNCHANGED <<fs, cache, halt, long_path, df, date_range, selected, fdf,
                   kpi, monthly, setting_trends, dose_trends, brand_trends,
                   regional_latest, fig5, hist_totals, csv_bytes, csv_monthly>>

\* Lines 290-323: the overall trend and the three by-dimension trends.
Trends ==
    /\ pc = "geo"
    /\ monthly' = groupby_Month(fdf.rows)
    /\ setting_trends' \in trend_by(fdf.rows, "Quviviq_Type")
    /\ dose_trends' \in trend_by(fdf.rows, "Product_Group")
    /\ brand_trends' \in trend_by(fdf.rows, "BNF_Name")
    /\ page' = page \o <<"fig1", "fig2", "fig3", "fig4">>
    /\ pc' = "trends"
    /\ UNCHANGED <<fs, cache, halt, long_path, data, df, date_range, selected,
                   fdf, kpi, map_type, regional_latest, fig5, hist_totals,
                   csv_bytes, csv_monthly>>

\* Lines 328-337.
TopICBs ==
    /\ pc = "trends"
    /\ IF fdf.rows # <<>>
       THEN /\ regional_latest' \in sort_values_QTY_desc(groupby_ICB_latest(fdf.rows))
            /\ fig5' = head(regional_latest', TopN)
            /\ page' = page \o <<"fig5">>
       ELSE /\ page' = page \o <<"info_no_data">>
            /\ UNCHANGED <<regional_latest, fig5>>
    /\ pc' = "top"
    /\ UNCHANGED <<fs, cache, halt, long_path, data, df, date_range, selected,
                   fdf, kpi, map_type, monthly, setting_trends, dose_trends,
                   brand_trends, hist_totals, csv_bytes, csv_monthly>>

\* The forecast section without its "is not None" test: fcast.empty raises on None.
forecast_outcome_noguard(fcast) ==
    IF ~fcast.present THEN "raise"
    ELSE IF fcast.rows # <<>>
    THEN IF fcast.mtype = "text" THEN "raise" ELSE "fig6"
    ELSE "info_forecast"

\* What the forecast section does with data.get("forecast_summary"): the chart
\* ("fig6"), the "not found" note ("info_forecast"), or an exception ("raise":
\* pd.to_datetime without errors="coerce" on a Month column that is still text).
forecast_outcome(fcast) ==
    IF fcast.present /\ fcast.rows # <<>>
    THEN IF fcast.mtype = "text" THEN "raise" ELSE "fig6"
    ELSE "info_forecast"

\* Lines 344-403.
Forecast ==
    /\ pc = "top"
    /\ LET out == forecast_outcome(data.forecast_summary)
       IN  /\ page' = page \o <<IF out = "raise" THEN "exception" ELSE out>>
           /\ hist_totals' = IF out = "fig6" THEN groupby_Month(df.rows)
                              ELSE hist_totals
           /\ pc' = IF out = "raise" THEN "halted" ELSE "forecast"
           /\ halt' = IF out = "raise" THEN "ForecastError" ELSE halt
    /\ UNCHANGED <<fs, cache, long_path, data, df, date_range, selected, fdf,
                   kpi, map_type, monthly, setting_trends, dose_trends,
                   brand_trends, regional_latest, fig5, csv_bytes, csv_monthly>>

\* Lines 501-509.
Explorer ==
    /\ pc = "forecast"
    /\ csv_bytes' = to_csv(PrimaryHeader, fdf.rows)
    /\ csv_monthly' = to_csv(MonthlyHeader, groupby_Month(fdf.rows))
    /\ page' = page \o <<"dataframe", "download_filtered", "download_monthly">>
    /\ pc' = "done"
    /\ UNCHANGED <<fs, cache, halt, long_path, data, df, date_range, selected,
                   fdf, kpi, map_type, monthly, setting_trends, dose_trends,
                   brand_trends, regional_latest, fig5, hist_totals>>

\* A user interaction (or a reload after an error): Streamlit runs the script
\* again from the top; only the cache of load_data survives.
Rerun ==
    /\ pc \in {"done", "halted"}
    /\ pc' = "start" /\ halt' = "" /\ page' = <<>> /\ long_path' = 0
    /\ data' = NoData /\ df' = NoFrame
    /\ date_range' = EmptyRange /\ selected' = NoSelection
    /\ fdf' = NoFrame /\ kpi' = <<>> /\ map_type' = ""
    /\ monthly' = <<>> /\ setting_trends' = <<>> /\ dose_trends' = <<>>
    /\ brand_trends' = <<>> /\ regional_latest' = <<>> /\ fig5' = <<>>
    /\ hist_totals' = <<>> /\ csv_bytes' = <<>> /\ csv_monthly' = <<>>
    /\ UNCHANGED <<fs, cache>>

Next ==
    \/ LoadData
    \/ Prepare
    \/ Sidebar
    \/ FilterData
    \/ Kpi
    \/ GeoMap
    \/ Trends
    \/ TopICBs
    \/ Forecast
    \/ Explorer
    \/ Rerun

Spec == Init /\ [][Next]_vars

-----------------------------------------------------------------------------
(* Vocabulary of the properties *)

Shown(e) == e \in Range(page)

LoaderFailures == {"NoDatasetFound", "LoadError"}

\* What the query sections put on the page.
QueryElements ==
    {"metrics", "fig_map", "info_geo", "fig1", "fig2", "fig3", "fig4", "fig5",
     "info_no_data", "fig6", "info_forecast", "dataframe", "download_filtered",
     "download_monthly"}

CandidateExists(i) == fs.long[i].status # "missing"

CandidateParses(i) == fs.long[i].status = "ok" /\ "Month" \in fs.long[i].cols

\* No optional file that exists is unreadable.
OptionalFilesParse ==
    /\ fs.monthly.status # "corrupt"
    /\ fs.forecast_summary.status # "corrupt"
    /\ fs.geo.status # "corrupt"

\* The frame holds the rows of the file, in the file's order.
SameContent(frame, file) ==
    /\ frame.present
    /\ frame.cols = file.cols
    /\ Len(frame.rows) = Len(file.rows)
    /\ \A k \in DOMAIN file.rows :
          /\ frame.rows[k].QTY = file.rows[k].QTY
          /\ frame.rows[k].NIC = file.rows[k].NIC
          /\ frame.rows[k].ICB_Name = file.rows[k].ICB_Name

\* The filter section has run in this script run (it may have raised).
FilterRan ==
    \/ pc \in {"filtered", "kpi", "geo", "trends", "top", "forecast", "done"}
    \/ pc = "halted" /\ halt \in {"KeyError", "ForecastError"}

KpiRan == Shown("metrics")

InFdf(r) == fdf.present /\ \E k \in DOMAIN fdf.rows : fdf.rows[k] = r

HasValue(r, col) == col \in df.cols /\ r[col] # NULL

\* The FilterSpec of the run: date_range and the four allowed sets.
Matches(r) ==
    /\ r.Month # NaT
    /\ date_range[1] <= r.Month
    /\ r.Month <= date_range[2]
    /\ HasValue(r, "ICB_Name") /\ r.ICB_Name \in selected.regions
    /\ HasValue(r, "Quviviq_Type") /\ r.Quviviq_Type \in selected.settings
    /\ HasValue(r, "Product_Group") /\ r.Product_Group \in selected.doses
    /\ HasValue(r, "BNF_Name") /\ r.BNF_Name \in selected.brands

\* The sum of a measure over the records of the dataset that match.
SumMatching(col) == SumCol(SelectSeq(df.rows, Matches), col)

-----------------------------------------------------------------------------
(* C1 *)

\* C1 as stated: the dataset returned is that of the first candidate, in list
\* order, that both exists and parses (a candidate that exists but cannot be
\* parsed is passed over); NoDatasetFound if no candidate exists.
C1_FirstExistingAndParsing ==
    (pc # "start" /\ OptionalFilesParse) =>
        /\ (\A i \in 1..3 : ~CandidateExists(i)) => halt = "NoDatasetFound"
        /\ \A i \in 1..3 :
              ( /\ CandidateExists(i) /\ CandidateParses(i)
                /\ \A j \in 1..(i - 1) : ~(CandidateExists(j) /\ CandidateParses(j)) )
              => /\ halt \notin LoaderFailures
                 /\ SameContent(data.long, fs.long[i])

\* C1 amended: the candidate chosen is the first, in list order, that exists; its
\* dataset is returned if it parses (and no optional file is unreadable); if it
\* cannot be parsed the load fails with LoadError and no dataset is returned, no
\* later candidate being tried; a later candidate is never chosen while an
\* earlier one exists; NoDatasetFound if no candidate exists.
C1_FirstExisting ==
    pc # "start" =>
        /\ (\A i \in 1..3 : ~CandidateExists(i)) =>
              halt = "NoDatasetFound" /\ ~data.long.present
        /\ \A i \in 1..3 :
              (CandidateExists(i) /\ \A j \in 1..(i - 1) : ~CandidateExists(j))
              => /\ long_path = i
                 /\ IF CandidateParses(i) /\ OptionalFilesParse
                    THEN /\ halt \notin LoaderFailures
                         /\ SameContent(data.long, fs.long[i])
                    ELSE halt = "LoadError" /\ ~data.long.present

\* The first candidate is missing, the second and the third exist and parse,
\* and the second one's dataset has been returned.
C1_Witness ==
    /\ pc = "loaded"
    /\ ~CandidateExists(1) /\ CandidateParses(2) /\ CandidateParses(3)
    /\ long_path = 2
    /\ SameContent(data.long, fs.long[2])
    /\ ~SameContent(data.long, fs.long[3])

-----------------------------------------------------------------------------
(* C2 *)

\* C2: a record of the dataset is in the filtered result iff its Month lies in
\* [dateFrom, dateTo], bounds included, and its value in each of the four
\* dimensions is in the allowed set; a record with an unknown Month or a missing
\* categorical value is never in the result.
C2_FilterIffMatches ==
    FilterRan =>
        /\ \A k \in DOMAIN df.rows : InFdf(df.rows[k]) <=> Matches(df.rows[k])
        /\ Range(fdf.rows) \subseteq Range(df.rows)
        /\ Cardinality(Range(fdf.rows)) = Len(fdf.rows)
        /\ \A k \in DOMAIN fdf.rows :
              /\ fdf.rows[k].Month # NaT
              /\ fdf.rows[k].ICB_Name # NULL /\ fdf.rows[k].Quviviq_Type # NULL
              /\ fdf.rows[k].Product_Group # NULL /\ fdf.rows[k].BNF_Name # NULL

\* A one-month range keeps a record of its month, the upper bound, and another
\* record of the dataset is left out.
C2_Witness ==
    /\ pc = "filtered"
    /\ date_range[1] = date_range[2]
    /\ \E k \in DOMAIN fdf.rows : fdf.rows[k].Month = date_range[2]
    /\ \E k \in DOMAIN df.rows : ~InFdf(df.rows[k])

-----------------------------------------------------------------------------
(* C3 *)

SomeAllowedSetEmpty ==
    \/ selected.regions = {} \/ selected.settings = {}
    \/ selected.doses = {} \/ selected.brands = {}

\* C3 as stated: with the allowed set of some dimension empty, the filter matches
\* no record, the run reaches the "no data" note instead of an exception of the
\* filter or an aggregate, and the KPI totals of QTY, NIC and ITEMS are zero.
C3_EmptyAllowedSet ==
    (Shown("sidebar") /\ SomeAllowedSetEmpty) =>
        /\ halt \notin {"KeyError"}
        /\ FilterRan => fdf.present /\ fdf.rows = <<>>
        /\ KpiRan => \A c \in Range(Measures) : Total(kpi, c) = 0
        /\ pc \in {"top", "forecast", "done"} => Shown("info_no_data")

-----------------------------------------------------------------------------
(* C4 *)

\* C4 as stated: the by-Month sums over the full unfiltered dataset, added up
\* across the months, equal the sums of QTY, NIC and ITEMS over all raw records
\* of the dataset, records with an unparseable Month included.
C4_MonthlyComplete ==
    Shown("fig6") =>
        \A c \in Range(Measures) :
            Total(hist_totals, c) = SumCol(fs.long[long_path].rows, c)

-----------------------------------------------------------------------------
(* C5 *)

\* The records of the filtered result in its latest Month, for one ICB.
LatestOf(icb) ==
    LET latest == SetMax({fdf.rows[k].Month : k \in DOMAIN fdf.rows})
    IN  SelectSeq(fdf.rows, LAMBDA r : r.Month = latest /\ r.ICB_Name = icb)

\* C5 as stated: at most 15 ICB groups, built from the records of the latest
\* Month of the filtered set only, each with the sum of QTY over that month, in
\* descending order of QTY, groups of equal QTY in ascending ICB_Name order.
C5_TopRegions ==
    Shown("fig5") =>
        /\ Len(fig5) <= 15
        /\ \A k \in DOMAIN fig5 :
              /\ LatestOf(fig5[k].ICB_Name) # <<>>
              /\ fig5[k].QTY = SumCol(LatestOf(fig5[k].ICB_Name), "QTY")
        /\ \A i, j \in DOMAIN fig5 :
              i < j =>
                \/ fig5[i].QTY > fig5[j].QTY
                \/ /\ fig5[i].QTY = fig5[j].QTY
                   /\ StrRank(fig5[i].ICB_Name) < StrRank(fig5[j].ICB_Name)

-----------------------------------------------------------------------------
(* C6 *)

AllValues(col) == {df.rows[k][col] : k \in DOMAIN df.rows} \ {NULL}

\* The default FilterSpec: the whole Month range of the dataset and, for every
\* dimension, every value offered.
FullFilterSpec ==
    /\ Shown("sidebar")
    /\ \A k \in DOMAIN df.rows :
          df.rows[k].Month # NaT =>
              date_range[1] <= df.rows[k].Month /\ df.rows[k].Month <= date_range[2]
    /\ selected.regions = AllValues("ICB_Name")
    /\ selected.settings = AllValues("Quviviq_Type")
    /\ selected.doses = AllValues("Product_Group")
    /\ selected.brands = IF "BNF_Name" \in df.cols THEN AllValues("BNF_Name")
                          ELSE {"BNF_Name", "Generic"}

\* The record has a Month and a value in each of the four dimensions.
Complete(r) ==
    /\ r.Month # NaT
    /\ HasValue(r, "ICB_Name") /\ HasValue(r, "Quviviq_Type")
    /\ HasValue(r, "Product_Group") /\ HasValue(r, "BNF_Name")

\* C6 as stated: under the default FilterSpec the filtered result holds every
\* record of the loaded dataset and the KPI totals are those of the whole
\* dataset.
C6_FullSetsKeepAll ==
    (FullFilterSpec /\ fdf.present) =>
        /\ Len(fdf.rows) = Len(df.rows)
        /\ KpiRan => \A c \in Range(Measures) : Total(kpi, c) = SumCol(df.rows, c)

\* C6 amended: under the default FilterSpec a record of the loaded dataset is in
\* the filtered result iff it has a valid Month and a value in each of the four
\* dimensions, and the KPI totals are the totals over those records.
C6_FullSetsKeepComplete ==
    (FullFilterSpec /\ FilterRan) =>
        /\ \A k \in DOMAIN df.rows : InFdf(df.rows[k]) <=> Complete(df.rows[k])
        /\ KpiRan => \A c \in Range(Measures) :
                        Total(kpi, c) = SumCol(SelectSeq(df.rows, Complete), c)

\* The default FilterSpec over a dataset of two months with one record that
\* lacks a value: the KPI totals are out, one record is kept, one is not.
C6_Witness ==
    /\ pc = "kpi"
    /\ FullFilterSpec
    /\ date_range[1] < date_range[2]
    /\ Len(fdf.rows) >= 1
    /\ \E k \in DOMAIN df.rows : ~InFdf(df.rows[k]) /\ ~Complete(df.rows[k])

-----------------------------------------------------------------------------
(* C7 *)

\* A query section has left something behind in this run.
QueryRan ==
    \/ Range(page) \cap QueryElements # {}
    \/ fdf.present \/ kpi # <<>> \/ monthly # <<>> \/ fig5 # <<>>
    \/ hist_totals # <<>> \/ csv_bytes # <<>> \/ csv_monthly # <<>>

\* The candidate load_data settles on cannot be read, or an optional file cannot.
LoadFails ==
    \E i \in 1..3 :
        /\ CandidateExists(i)
        /\ \A j \in 1..(i - 1) : ~CandidateExists(j)
        /\ ~CandidateParses(i) \/ ~OptionalFilesParse

\* C7: when no candidate exists (NoDatasetFound) or the load fails, the run stops
\* there and no filter, aggregate, chart or export step is executed in it; every
\* query step is preceded by a successful load of the primary dataset.
C7_LoaderFailureHalts ==
    /\ (pc # "start" /\ \A i \in 1..3 : ~CandidateExists(i)) => halt = "NoDatasetFound"
    /\ (pc # "start" /\ LoadFails) => halt = "LoadError"
    /\ halt \in LoaderFailures => pc = "halted" /\ ~QueryRan /\ ~df.present
    /\ QueryRan => /\ halt \notin LoaderFailures
                   /\ cache.filled
                   /\ data.long.present
                   /\ SameContent(data.long, fs.long[long_path])

\* No candidate exists: the run has stopped on the error message alone.
C7_Witness ==
    /\ \A i \in 1..3 : ~CandidateExists(i)
    /\ pc = "halted" /\ halt = "NoDatasetFound"
    /\ page = <<"error_no_data_file">>

-----------------------------------------------------------------------------
(* C8 *)

ForecastMissing == fs.forecast_summary.status = "missing"

\* The query results of a finished run are those of the dataset and the
\* FilterSpec alone, whatever the forecast file.
QueryResultsStand ==
    /\ \A k \in DOMAIN df.rows : InFdf(df.rows[k]) <=> Matches(df.rows[k])
    /\ \A c \in Range(Measures) :
          Total(kpi, c) = SumMatching(c) /\ Total(monthly, c) = SumMatching(c)
    /\ Total(setting_trends, "QTY") = SumMatching("QTY")
    /\ Total(dose_trends, "QTY") = SumMatching("QTY")
    /\ Total(brand_trends, "QTY") = SumMatching("QTY")
    /\ IF fdf.rows = <<>> THEN Shown("info_no_data")
       ELSE /\ Shown("fig5")
            /\ \A k \in DOMAIN fig5 :
                  fig5[k].QTY = SumCol(LatestOf(fig5[k].ICB_Name), "QTY")

\* C8: with forecast_summary.csv missing, loading yields Absent for it and does
\* not fail because of it, the forecast section reports "unavailable" instead of
\* raising, and the filtered records, KPI totals, trends and top regions of the
\* run are what they are with the forecast file present.
C8_MissingForecastNotFatal ==
    /\ ForecastMissing =>
          /\ (pc # "start" /\ halt = "LoadError") => LoadFails
          /\ (pc # "start" /\ halt \notin LoaderFailures) =>
                ~data.forecast_summary.present
          /\ halt # "ForecastError"
          /\ ~Shown("fig6")
          /\ pc \in {"forecast", "done"} => Shown("info_forecast") /\ halt = ""
    /\ pc \in {"forecast", "done"} => QueryResultsStand

\* A finished run without the forecast file, with records in the result.
C8_Witness ==
    /\ ForecastMissing
    /\ pc = "done"
    /\ Shown("info_forecast")
    /\ fdf.rows # <<>>
    /\ Total(kpi, "QTY") > 0

-----------------------------------------------------------------------------
(* C9 *)

\* C9 as stated: for a loaded dataset with at least one valid Month, building
\* the mask and computing the KPI totals, the trends and the top regions never
\* raise, a dataset without a BNF_Name column included, whose brand options are
\* the fixed two-value default list.
C9_QueriesNeverFail ==
    (df.present /\ \E k \in DOMAIN df.rows : df.rows[k].Month # NaT) =>
        /\ halt \notin {"SliderError", "KeyError"}
        /\ ("BNF_Name" \notin df.cols /\ Shown("sidebar")) =>
              selected.brands \subseteq {"BNF_Name", "Generic"}

-----------------------------------------------------------------------------
(* C10 *)

\* C10 as stated: whatever the user does, each dataset the loader returned (long,
\* monthly, forecast_summary, geo) keeps the rows, columns and values it had
\* right after loading.
C10_LoadedDataImmutable ==
    (pc # "start" /\ halt \notin LoaderFailures) =>
        /\ data.long = load_csv(fs.long[long_path], TRUE).frame
        /\ data.monthly = load_csv(fs.monthly, TRUE).frame
        /\ data.forecast_summary = load_csv(fs.forecast_summary, TRUE).frame
        /\ data.geo.cols = load_csv(fs.geo, FALSE).frame.cols
        /\ data.geo = load_csv(fs.geo, FALSE).frame

-----------------------------------------------------------------------------
(* C11 *)

MonthsOf(trend) == {trend[k].Month : k \in DOMAIN trend}

\* The QTY of the rows of a trend for one Month, added up.
QtyAt(trend, m) ==
    SumCol(SelectSeq(trend, LAMBDA t : t.Month = m), "QTY")

\* A by-dimension trend splits the monthly trend: the same months, each month's
\* QTY split over the values of the dimension, one row per (Month, value), the
\* rows in ascending Month order.
Partitions(trend) ==
    /\ MonthsOf(trend) = MonthsOf(monthly)
    /\ \A k \in DOMAIN monthly : QtyAt(trend, monthly[k].Month) = monthly[k].QTY
    /\ \A i, j \in DOMAIN trend :
          /\ i < j => trend[i].Month <= trend[j].Month
          /\ (i # j /\ trend[i].Month = trend[j].Month) => trend[i].key # trend[j].key

\* C11: for each of Quviviq_Type, Product_Group and BNF_Name, the QTY of the
\* by-(Month, value) aggregate summed over the values of a month equals that
\* month's QTY in the by-Month aggregate of the same filtered records, and both
\* aggregates hold exactly the same months, in ascending Month order.
C11_TrendsPartitionMonthly ==
    Shown("fig4") =>
        /\ \A i, j \in DOMAIN monthly : i < j => monthly[i].Month < monthly[j].Month
        /\ MonthsOf(monthly) = {fdf.rows[k].Month : k \in DOMAIN fdf.rows}
        /\ \A k \in DOMAIN monthly :
              monthly[k].QTY =
                  SumCol(SelectSeq(fdf.rows, LAMBDA r : r.Month = monthly[k].Month),
                         "QTY")
        /\ Partitions(setting_trends)
        /\ Partitions(dose_trends)
        /\ Partitions(brand_trends)

\* One month of the result holds records of two settings: the setting trend has
\* two rows for the one row of the monthly trend.
C11_Witness ==
    /\ pc = "trends"
    /\ Len(monthly) = 1
    /\ Len(setting_trends) = 2
    /\ setting_trends[1].key # setting_trends[2].key
    /\ setting_trends[1].QTY + setting_trends[2].QTY = monthly[1].QTY

====
